---- MODULE Spec2Model ----
(***************************************************************************)
(* Model of static/js/script.js: the phishing-analysis client.             *)
(*                                                                         *)
(* The page holds one form.  Its submit listener calls the async function  *)
(* analyzeEmail, which validates the text, switches the button to its      *)
(* loading state, POSTs the text to /analyze, awaits the response and its  *)
(* JSON body and hands data.analysis to displayResults, which writes the   *)
(* results header and body and reveals the results panel.                  *)
(*                                                                         *)
(* JavaScript values are tagged records (Undef, Null, Str, Num, Arr, Obj). *)
(* Strings are TLA+ strings; the text typed by the user is a sequence of   *)
(* one-character strings so that trim() can be computed.  Glyphs outside   *)
(* ASCII are written as their code points ("U+1F6A8") and accented letters *)
(* without their accent.                                                   *)
(*                                                                         *)
(* alert() is a blocking modal dialog: while it is open no other script of *)
(* the page runs.  The states in which a dialog is open are therefore      *)
(* positions of the operation ("valAlert", "catchAlert").                  *)
(***************************************************************************)
EXTENDS Integers, Sequences, FiniteSets

\* ------------------------------------------------------------------------
\* Bounds
\* ------------------------------------------------------------------------
\* longest text typed into the textarea
MaxLen == 2
\* number of invocations of analyzeEmail that can be alive at the same time
MaxOps == 2

Ops == 1..MaxOps

\* ------------------------------------------------------------------------
\* JavaScript values
\* ------------------------------------------------------------------------
Undef == [t |-> "undefined"]
Null == [t |-> "null"]
Str(s) == [t |-> "string", v |-> s]
Num(n) == [t |-> "number", n |-> n]
Arr(items) == [t |-> "array", items |-> items]

IsNullish(x) == x.t \in {"undefined", "null"}

\* if (x): the truthiness of a value
Truthy(x) ==
    CASE x.t = "undefined" -> FALSE
      [] x.t = "null" -> FALSE
      [] x.t = "string" -> x.v # ""
      [] x.t = "number" -> x.n # 0
      [] OTHER -> TRUE

Digit == <<"0", "1", "2", "3", "4", "5", "6", "7", "8", "9">>

RECURSIVE NumStr(_)
NumStr(n) == IF n < 10 THEN Digit[n + 1]
             ELSE NumStr(n \div 10) \o Digit[(n % 10) + 1]

RECURSIVE Join(_, _)
Join(items, sep) ==
    IF Len(items) = 0 THEN ""
    ELSE IF Len(items) = 1 THEN items[1]
    ELSE items[1] \o sep \o Join(Tail(items), sep)

\* ${x} and 'text' + x: the conversion of a value to a string
ToString(x) ==
    CASE x.t = "undefined" -> "undefined"
      [] x.t = "null" -> "null"
      [] x.t = "string" -> x.v
      [] x.t = "number" -> NumStr(x.n)
      [] x.t = "array" -> Join(x.items, ",")
      [] OTHER -> "[object Object]"

\* String.prototype.toLowerCase on the strings of the model
ToLowerCase(s) ==
    CASE s = "ALTO" -> "alto"
      [] s = "MEDIO" -> "medio"
      [] s = "BAJO" -> "bajo"
      [] OTHER -> s

\* ------------------------------------------------------------------------
\* The text of the textarea and String.prototype.trim
\* ------------------------------------------------------------------------
WhiteSpace == {" ", "\n"}
Chars == WhiteSpace \cup {"a"}

RECURSIVE SeqsUpTo(_)
SeqsUpTo(n) ==
    IF n = 0 THEN {<<>>}
    ELSE LET shorter == SeqsUpTo(n - 1)
         IN shorter \cup {Append(s, c) : s \in {x \in shorter : Len(x) = n - 1}, c \in Chars}

Texts == SeqsUpTo(MaxLen)

RECURSIVE TrimStart(_)
TrimStart(s) ==
    IF Len(s) > 0 /\ Head(s) \in WhiteSpace THEN TrimStart(Tail(s)) ELSE s

RECURSIVE TrimEnd(_)
TrimEnd(s) ==
    IF Len(s) > 0 /\ s[Len(s)] \in WhiteSpace
    THEN TrimEnd(SubSeq(s, 1, Len(s) - 1))
    ELSE s

Trim(s) == TrimEnd(TrimStart(s))

\* ------------------------------------------------------------------------
\* The responses of the analysis service
\* ------------------------------------------------------------------------
RiskLevels == {Str("ALTO"), Str("MEDIO"), Str("BAJO"), Str("alto"), Str(""),
               Undef, Null, Num(3)}
RiskColors == {Str("danger"), Str("warning")}
Scores == {Num(0), Num(85)}
KeywordLists == {Arr(<<>>), Arr(<<"free", "click">>), Undef}
UrlLists == {Arr(<<>>), Arr(<<"http://bit.ly/x">>), Undef}
UrlCounts == {Num(0), Num(1)}

\* the objects a response can carry in its analysis field; a field the
\* object lacks reads as undefined
Analyses ==
    [t : {"object"}, risk_level : RiskLevels, risk_color : RiskColors,
     score : Scores, detected_keywords : KeywordLists,
     suspicious_urls : UrlLists, total_urls : UrlCounts]

\* the values of the error field: absent, null, empty and two messages
ErrorFields == {Undef, Null, Str(""), Str("malformed payload")}

\* the results of the two scenarios of the service: a phishing mail and a
\* harmless one
ScenarioA ==
    [t |-> "object", risk_level |-> Str("ALTO"), risk_color |-> Str("danger"),
     score |-> Num(85), detected_keywords |-> Arr(<<"free", "click">>),
     suspicious_urls |-> Arr(<<"http://bit.ly/x">>), total_urls |-> Num(1)]
ScenarioB ==
    [t |-> "object", risk_level |-> Str("BAJO"), risk_color |-> Str("warning"),
     score |-> Num(0), detected_keywords |-> Arr(<<>>),
     suspicious_urls |-> Arr(<<>>), total_urls |-> Num(0)]

\* the values response.json() resolves to: null, every analysis without an
\* error field, and every error field with no analysis or a scenario's
Datas ==
    {Null}
    \cup [t : {"object"}, error : {Undef}, analysis : {Undef} \cup Analyses]
    \cup [t : {"object"}, error : ErrorFields,
          analysis : {Undef, ScenarioA, ScenarioB}]

\* the messages fetch() rejects with
FetchFailures == {"Failed to fetch"}
\* the messages response.json() rejects with
JsonFailures == {"Unexpected token '<' is not valid JSON"}

\* ------------------------------------------------------------------------
\* displayResults
\* ------------------------------------------------------------------------
\* a normal completion, and the completion of a throw
Normal == [threw |-> FALSE]
Throw(message) == [threw |-> TRUE, message |-> message]

\* line 55: destructuring a value that is undefined or null throws
Destructure(analysis) ==
    IF IsNullish(analysis)
    THEN Throw("Cannot destructure property 'risk_level' of 'analysis' as it is "
               \o ToString(analysis) \o ".")
    ELSE Normal

\* the header class had the assignment dropped the class of the markup
HeaderClassWithoutBase(risk_color) == "bg-" \o ToString(risk_color) \o " text-white"

\* line 58
HeaderClass(risk_color) == "card-header bg-" \o ToString(risk_color) \o " text-white"

\* the switch had it compared the tier without regard to case
ClassifyIgnoringCase(risk_level) ==
    CASE risk_level.t = "string" /\ ToLowerCase(risk_level.v) = "alto" ->
           [alertClass |-> "alert-danger", riskIcon |-> "U+1F6A8",
            recommendation |-> "NO interactues con este correo. Es muy probable que sea phishing."]
      [] risk_level.t = "string" /\ ToLowerCase(risk_level.v) = "medio" ->
           [alertClass |-> "alert-warning", riskIcon |-> "U+26A0",
            recommendation |-> "Ten precaucion. Verifica la fuente antes de realizar cualquier accion."]
      [] OTHER ->
           [alertClass |-> "alert-success", riskIcon |-> "U+2705",
            recommendation |-> "El correo parece seguro, pero siempre manten precaucion."]

\* lines 64-79: the switch compares with ===
Classify(risk_level) ==
    CASE risk_level = Str("ALTO") ->
           [alertClass |-> "alert-danger", riskIcon |-> "U+1F6A8",
            recommendation |-> "NO interactues con este correo. Es muy probable que sea phishing."]
      [] risk_level = Str("MEDIO") ->
           [alertClass |-> "alert-warning", riskIcon |-> "U+26A0",
            recommendation |-> "Ten precaucion. Verifica la fuente antes de realizar cualquier accion."]
      [] OTHER ->
           [alertClass |-> "alert-success", riskIcon |-> "U+2705",
            recommendation |-> "El correo parece seguro, pero siempre manten precaucion."]

\* x.length and x.toLowerCase() on undefined or null throw; calling
\* toLowerCase on a value that has no such method throws as well
ReadProperty(x, name) ==
    IF IsNullish(x)
    THEN Throw("Cannot read properties of " \o ToString(x) \o " (reading '" \o name \o "')")
    ELSE Normal

CallToLowerCase(risk_level) ==
    IF IsNullish(risk_level) THEN ReadProperty(risk_level, "toLowerCase")
    ELSE IF risk_level.t # "string" THEN Throw("risk_level.toLowerCase is not a function")
    ELSE Normal

\* lines 81-119: the expressions of the template are evaluated from left to
\* right; the first one that throws ends the evaluation
TemplateCompletion(analysis) ==
    IF CallToLowerCase(analysis.risk_level).threw
    THEN CallToLowerCase(analysis.risk_level)
    ELSE IF ReadProperty(analysis.detected_keywords, "length").threw
    THEN ReadProperty(analysis.detected_keywords, "length")
    ELSE IF ReadProperty(analysis.suspicious_urls, "length").threw
    THEN ReadProperty(analysis.suspicious_urls, "length")
    ELSE Normal

\* lines 82-87: the class attribute is its list of classes, the heading the
\* icon and the text after it
AlertBlock(analysis) ==
    LET c == Classify(analysis.risk_level)
    IN [block |-> "alert",
        class |-> <<"alert", c.alertClass, "risk-" \o ToLowerCase(analysis.risk_level.v)>>,
        heading |-> <<c.riskIcon, "Nivel de Riesgo: " \o ToString(analysis.risk_level)>>,
        score |-> ToString(analysis.score) \o " puntos",
        recommendation |-> c.recommendation]

\* lines 89-98
KeywordBlock(detected_keywords) ==
    IF Len(detected_keywords.items) > 0
    THEN <<[block |-> "keywords", badges |-> detected_keywords.items]>>
    ELSE <<>>

\* the URL block had it been rendered as an empty container too
UrlBlockAlways(suspicious_urls) ==
    <<[block |-> "urls", items |-> suspicious_urls.items]>>

\* lines 100-111
UrlBlock(suspicious_urls) ==
    IF Len(suspicious_urls.items) > 0
    THEN <<[block |-> "urls", items |-> suspicious_urls.items]>>
    ELSE <<>>

\* lines 113-118
TotalBlock(total_urls) ==
    [block |-> "total",
     text |-> "Total de URLs encontradas: " \o ToString(total_urls)
              \o " | Analisis realizado con exito"]

\* lines 81-119: the markup assigned to resultsBody.innerHTML, block by block
BodyHTML(analysis) ==
    <<AlertBlock(analysis)>>
    \o KeywordBlock(analysis.detected_keywords)
    \o UrlBlock(analysis.suspicious_urls)
    \o <<TotalBlock(analysis.total_urls)>>

\* displayResults had it appended the markup to the body (innerHTML +=)
displayResultsAppending(analysis, dom) ==
    IF Destructure(analysis).threw
    THEN [completion |-> Destructure(analysis), dom |-> dom,
          writes |-> <<"displayResults">>]
    ELSE LET withHeader == [dom EXCEPT !.className = HeaderClass(analysis.risk_color)]
         IN IF TemplateCompletion(analysis).threw
            THEN [completion |-> TemplateCompletion(analysis), dom |-> withHeader,
                  writes |-> <<"displayResults", "header">>]
            ELSE [completion |-> Normal,
                  dom |-> [withHeader EXCEPT !.innerHTML = @ \o BodyHTML(analysis),
                                             !.display = "block"],
                  writes |-> <<"displayResults", "header", "body", "show">>]

\* displayResults had it revealed the panel before building the body
displayResultsRevealingFirst(analysis, dom) ==
    IF Destructure(analysis).threw
    THEN [completion |-> Destructure(analysis), dom |-> dom,
          writes |-> <<"displayResults">>]
    ELSE LET withHeader == [dom EXCEPT !.className = HeaderClass(analysis.risk_color),
                                       !.display = "block"]
         IN IF TemplateCompletion(analysis).threw
            THEN [completion |-> TemplateCompletion(analysis), dom |-> withHeader,
                  writes |-> <<"displayResults", "header">>]
            ELSE [completion |-> Normal,
                  dom |-> [withHeader EXCEPT !.innerHTML = BodyHTML(analysis)],
                  writes |-> <<"displayResults", "header", "body", "show">>]

\* lines 54-123: the effect of displayResults(analysis) on the page dom =
\* [className, innerHTML, display], its completion, and what it executed:
\* the call, the write of line 58, the write of line 81, the write of line 121
displayResults(analysis, dom) ==
    IF Destructure(analysis).threw
    THEN [completion |-> Destructure(analysis), dom |-> dom,
          writes |-> <<"displayResults">>]
    ELSE LET withHeader == [dom EXCEPT !.className = HeaderClass(analysis.risk_color)]
         IN IF TemplateCompletion(analysis).threw
            THEN [completion |-> TemplateCompletion(analysis), dom |-> withHeader,
                  writes |-> <<"displayResults", "header">>]
            ELSE [completion |-> Normal,
                  dom |-> [withHeader EXCEPT !.innerHTML = BodyHTML(analysis),
                                             !.display = "block"],
                  writes |-> <<"displayResults", "header", "body", "show">>]

\* ------------------------------------------------------------------------
\* The page and the invocations of analyzeEmail
\* ------------------------------------------------------------------------
VARIABLES
    analyzeBtn,     \* [innerHTML, disabled] of the submit button
    results,        \* [display]: results.style.display
    resultsHeader,  \* [className]
    resultsBody,    \* [innerHTML], a sequence of blocks
    pc,             \* position of each invocation of analyzeEmail
    emailContent,   \* its local emailContent
    request,        \* the request it passed to fetch, NoRequest before
    error,          \* the completion its catch block received, Normal if none
    alerts,         \* the texts it passed to alert(), in order
    trace,          \* the statements with an effect it executed, in order
    received,       \* what response.json() resolved to: NoData before, else the
                    \* data with its analysis field reduced to its shape
    shown,          \* the analysis resultsBody.innerHTML was built from
    before,         \* what the page showed when the invocation rendered:
                    \* "empty", the "same" result, an "other" one; "none" if
                    \* it has not rendered
    order           \* the slots in the order of their latest submit event

vars == <<analyzeBtn, results, resultsHeader, resultsBody, pc, emailContent,
          request, error, alerts, trace, received, shown, before, order>>

ValidationMessage == "Por favor, ingresa el contenido del correo electronico"
ErrorPrefix == "Error al analizar el correo: "
LoadingLabel == "U+23F3 Analizando..."
DefaultLabel == "U+1F50D Analizar Correo"

NoRequest == [sent |-> FALSE]
NoData == [t |-> "none"]
NoAnalysis == [t |-> "none"]

\* the loading state had the button been left enabled
LoadingStateEnabled == [innerHTML |-> LoadingLabel, disabled |-> FALSE]

\* lines 22-23
LoadingState == [innerHTML |-> LoadingLabel, disabled |-> TRUE]
\* the finally block had it kept the loading state while another invocation
\* has not returned
FinallyBlockCounting ==
    IF Cardinality({o \in Ops : pc[o] \in {"fetch", "json", "catchAlert"}}) > 1
    THEN LoadingState
    ELSE [innerHTML |-> DefaultLabel, disabled |-> FALSE]

\* lines 49-50
FinallyBlock == [innerHTML |-> DefaultLabel, disabled |-> FALSE]

\* lines 27-35
FetchRequest(content) ==
    [sent |-> TRUE, url |-> "/analyze", method |-> "POST",
     contentType |-> "application/json", body |-> [email_content |-> content]]

\* lines 1-11: the page as loaded; no invocation has started
Init ==
    /\ analyzeBtn = [innerHTML |-> DefaultLabel, disabled |-> FALSE]
    /\ results = [display |-> "none"]
    /\ resultsHeader = [className |-> "card-header"]
    /\ resultsBody = [innerHTML |-> <<>>]
    /\ pc = [o \in Ops |-> "idle"]
    /\ emailContent = [o \in Ops |-> <<>>]
    /\ request = [o \in Ops |-> NoRequest]
    /\ error = [o \in Ops |-> Normal]
    /\ alerts = [o \in Ops |-> <<>>]
    /\ trace = [o \in Ops |-> <<>>]
    /\ received = [o \in Ops |-> NoData]
    /\ shown = NoAnalysis
    /\ before = [o \in Ops |-> "none"]
    /\ order = <<>>

\* an invocation that has not started or has returned
Free(o) == pc[o] \in {"idle", "done"}
\* an invocation suspended at one of the two awaits
Outstanding(o) == pc[o] \in {"fetch", "json"}
\* alert() has not returned: the scripts of the page are blocked
DialogOpen == \E o \in Ops : pc[o] \in {"valAlert", "catchAlert"}

\* the check of line 16 had it been left out
IsEmptyNever(content) == FALSE

\* line 16: !emailContent, true of the empty string only
IsEmpty(content) == content = <<>>

\* s without its element e
RECURSIVE Without(_, _)
Without(s, e) ==
    IF s = <<>> THEN <<>>
    ELSE IF Head(s) = e THEN Without(Tail(s), e)
    ELSE <<Head(s)>> \o Without(Tail(s), e)

\* analyzeEmail had it left the results panel as it was (no line 24)
analyzeEmailWithoutHide(o, text) ==
    /\ ~DialogOpen
    /\ Free(o)
    /\ \A p \in Ops : p < o => ~Free(p)
    /\ LET content == Trim(text)
       IN /\ emailContent' = [emailContent EXCEPT ![o] = content]
          /\ error' = [error EXCEPT ![o] = Normal]
          /\ received' = [received EXCEPT ![o] = NoData]
          /\ before' = [before EXCEPT ![o] = "none"]
          /\ order' = Append(Without(order, o), o)
          /\ IF IsEmpty(content)
             THEN /\ alerts' = [alerts EXCEPT ![o] = <<ValidationMessage>>]
                  /\ trace' = [trace EXCEPT ![o] = <<"validationAlert">>]
                  /\ pc' = [pc EXCEPT ![o] = "valAlert"]
                  /\ request' = [request EXCEPT ![o] = NoRequest]
                  /\ UNCHANGED analyzeBtn
             ELSE /\ analyzeBtn' = LoadingState
                  /\ request' = [request EXCEPT ![o] = FetchRequest(content)]
                  /\ alerts' = [alerts EXCEPT ![o] = <<>>]
                  /\ trace' = [trace EXCEPT ![o] = <<"btnLoading", "fetch">>]
                  /\ pc' = [pc EXCEPT ![o] = "fetch"]
    /\ UNCHANGED <<results, resultsHeader, resultsBody, shown>>

\* lines 8-27: a submit event; analyzeEmail runs up to its return at line 18
\* or up to the await of line 27.  The invocation takes the first free slot.
analyzeEmail(o, text) ==
    /\ ~DialogOpen
    /\ Free(o)
    /\ \A p \in Ops : p < o => ~Free(p)
    /\ LET content == Trim(text)
       IN /\ emailContent' = [emailContent EXCEPT ![o] = content]
          /\ error' = [error EXCEPT ![o] = Normal]
          /\ received' = [received EXCEPT ![o] = NoData]
          /\ before' = [before EXCEPT ![o] = "none"]
          /\ order' = Append(Without(order, o), o)
          /\ IF IsEmpty(content)
             THEN /\ alerts' = [alerts EXCEPT ![o] = <<ValidationMessage>>]
                  /\ trace' = [trace EXCEPT ![o] = <<"validationAlert">>]
                  /\ pc' = [pc EXCEPT ![o] = "valAlert"]
                  /\ request' = [request EXCEPT ![o] = NoRequest]
                  /\ UNCHANGED <<analyzeBtn, results>>
             ELSE /\ analyzeBtn' = LoadingState
                  /\ results' = [results EXCEPT !.display = "none"]
                  /\ request' = [request EXCEPT ![o] = FetchRequest(content)]
                  /\ alerts' = [alerts EXCEPT ![o] = <<>>]
                  /\ trace' = [trace EXCEPT ![o] = <<"btnLoading", "hide", "fetch">>]
                  /\ pc' = [pc EXCEPT ![o] = "fetch"]
    /\ UNCHANGED <<resultsHeader, resultsBody, shown>>

\* the form is submitted through its enabled button
Submit(o, text) ==
    /\ ~analyzeBtn.disabled
    /\ analyzeEmail(o, text)

\* a submit event dispatched although the button is disabled
SubmitBypassed(o, text) ==
    /\ analyzeBtn.disabled
    /\ analyzeEmail(o, text)

\* line 18: the validation dialog is closed and analyzeEmail returns
DismissValidation(o) ==
    /\ pc[o] = "valAlert"
    /\ pc' = [pc EXCEPT ![o] = "done"]
    /\ UNCHANGED <<analyzeBtn, results, resultsHeader, resultsBody, emailContent,
                   request, error, alerts, trace, received, shown, before, order>>

\* the catch block had it restored the button itself, before the dialog
CatchRestoring(o, thrown, events) ==
    /\ error' = [error EXCEPT ![o] = thrown]
    /\ analyzeBtn' = FinallyBlock
    /\ alerts' = [alerts EXCEPT ![o] = Append(@, ErrorPrefix \o thrown.message)]
    /\ trace' = [trace EXCEPT ![o] = @ \o events \o <<"btnIdle", "alert">>]
    /\ pc' = [pc EXCEPT ![o] = "catchAlert"]

\* the catch block had it shown the message without the prefix
CatchWithoutPrefix(o, thrown, events) ==
    /\ error' = [error EXCEPT ![o] = thrown]
    /\ alerts' = [alerts EXCEPT ![o] = Append(@, thrown.message)]
    /\ trace' = [trace EXCEPT ![o] = @ \o events \o <<"alert">>]
    /\ pc' = [pc EXCEPT ![o] = "catchAlert"]
    /\ UNCHANGED analyzeBtn

\* lines 45-47: the catch block, up to the dialog of alert()
Catch(o, thrown, events) ==
    /\ error' = [error EXCEPT ![o] = thrown]
    /\ alerts' = [alerts EXCEPT ![o] = Append(@, ErrorPrefix \o thrown.message)]
    /\ trace' = [trace EXCEPT ![o] = @ \o events \o <<"alert">>]
    /\ pc' = [pc EXCEPT ![o] = "catchAlert"]
    /\ UNCHANGED analyzeBtn

\* line 27: fetch resolves with a response
FetchResolve(o) ==
    /\ ~DialogOpen
    /\ pc[o] = "fetch"
    /\ pc' = [pc EXCEPT ![o] = "json"]
    /\ trace' = [trace EXCEPT ![o] = Append(@, "response")]
    /\ UNCHANGED <<analyzeBtn, results, resultsHeader, resultsBody, emailContent,
                   request, error, alerts, received, shown, before, order>>

\* line 27: fetch rejects
FetchReject(o, message) ==
    /\ ~DialogOpen
    /\ pc[o] = "fetch"
    /\ Catch(o, Throw(message), <<"fetchRejected">>)
    /\ UNCHANGED <<results, resultsHeader, resultsBody, emailContent,
                   request, received, shown, before, order>>

\* line 37: response.json() rejects
JsonReject(o, message) ==
    /\ ~DialogOpen
    /\ pc[o] = "json"
    /\ Catch(o, Throw(message), <<"jsonRejected">>)
    /\ UNCHANGED <<results, resultsHeader, resultsBody, emailContent,
                   request, received, shown, before, order>>

\* lines 39-43: the rest of the try block once data is known
TryBlock(data, dom) ==
    IF ReadProperty(data, "error").threw
    THEN [completion |-> ReadProperty(data, "error"), dom |-> dom, writes |-> <<>>]
    ELSE IF Truthy(data.error)
    THEN [completion |-> Throw(ToString(data.error)), dom |-> dom, writes |-> <<"throw">>]
    ELSE displayResults(data.analysis, dom)

\* the fields of an analysis that decide what displayResults does with it
Shape(analysis) ==
    IF analysis.t = "object"
    THEN [risk_level |-> analysis.risk_level, risk_color |-> analysis.risk_color,
          hasKeywords |-> analysis.detected_keywords # Undef,
          hasUrls |-> analysis.suspicious_urls # Undef]
    ELSE analysis

Presence(data) ==
    IF data.t = "object"
    THEN [t |-> "object", error |-> data.error, hasAnalysis |-> data.analysis # Undef,
          shape |-> Shape(data.analysis)]
    ELSE data

\* what the page showed when displayResults(analysis) rendered over dom, last
\* being the analysis rendered before: nothing, the rendering of the same
\* analysis with the header it wrote, or something else
Before(dom, last, analysis) ==
    IF dom.innerHTML = <<>> THEN "empty"
    ELSE IF /\ last = analysis
            /\ dom.innerHTML = BodyHTML(analysis)
            /\ dom.className = HeaderClass(analysis.risk_color)
         THEN "same"
         ELSE "other"

\* the resolution had the response of a superseded request been dropped: only
\* the invocation submitted last runs the try block
JsonResolveLatestOnly(o, data) ==
    /\ ~DialogOpen
    /\ pc[o] = "json"
    /\ LET dom == [className |-> resultsHeader.className,
                   innerHTML |-> resultsBody.innerHTML,
                   display |-> results.display]
           latest == o = order[Len(order)]
           out == IF latest THEN TryBlock(data, dom)
                  ELSE [completion |-> Normal, dom |-> dom, writes |-> <<>>]
       IN /\ resultsHeader' = [resultsHeader EXCEPT !.className = out.dom.className]
          /\ resultsBody' = [resultsBody EXCEPT !.innerHTML = out.dom.innerHTML]
          /\ results' = [results EXCEPT !.display = out.dom.display]
          /\ received' = [received EXCEPT ![o] = Presence(data)]
          /\ IF out.completion.threw
             THEN /\ Catch(o, out.completion, <<"data">> \o out.writes)
                  /\ UNCHANGED <<shown, before>>
             ELSE /\ analyzeBtn' = FinallyBlock
                  /\ shown' = IF latest THEN data.analysis ELSE shown
                  /\ before' = before
                  /\ trace' = [trace EXCEPT ![o] = @ \o <<"data">> \o out.writes \o <<"btnIdle">>]
                  /\ pc' = [pc EXCEPT ![o] = "done"]
                  /\ UNCHANGED <<error, alerts>>
    /\ UNCHANGED <<emailContent, request, order>>

\* lines 37-51: response.json() resolves with data; the try block runs to its
\* end, then either the catch block up to its dialog or the finally block
JsonResolve(o, data) ==
    /\ ~DialogOpen
    /\ pc[o] = "json"
    /\ LET dom == [className |-> resultsHeader.className,
                   innerHTML |-> resultsBody.innerHTML,
                   display |-> results.display]
           out == TryBlock(data, dom)
       IN /\ resultsHeader' = [resultsHeader EXCEPT !.className = out.dom.className]
          /\ resultsBody' = [resultsBody EXCEPT !.innerHTML = out.dom.innerHTML]
          /\ results' = [results EXCEPT !.display = out.dom.display]
          /\ received' = [received EXCEPT ![o] = Presence(data)]
          /\ IF out.completion.threw
             THEN /\ Catch(o, out.completion, <<"data">> \o out.writes)
                  /\ UNCHANGED <<shown, before>>
             ELSE /\ analyzeBtn' = FinallyBlock
                  /\ shown' = data.analysis
                  /\ before' = [before EXCEPT ![o] = Before(dom, shown, data.analysis)]
                  /\ trace' = [trace EXCEPT ![o] = @ \o <<"data">> \o out.writes \o <<"btnIdle">>]
                  /\ pc' = [pc EXCEPT ![o] = "done"]
                  /\ UNCHANGED <<error, alerts>>
    /\ UNCHANGED <<emailContent, request, order>>

\* the end of the failure path had the button been restored at the end of
\* the try block instead of in a finally block
FinallyWithoutRestore(o) ==
    /\ pc[o] = "catchAlert"
    /\ pc' = [pc EXCEPT ![o] = "done"]
    /\ UNCHANGED <<analyzeBtn, results, resultsHeader, resultsBody, emailContent,
                   request, error, alerts, trace, received, shown, before, order>>

\* lines 48-51: the dialog of the catch block is closed; the finally block
Finally(o) ==
    /\ pc[o] = "catchAlert"
    /\ analyzeBtn' = FinallyBlock
    /\ trace' = [trace EXCEPT ![o] = Append(@, "btnIdle")]
    /\ pc' = [pc EXCEPT ![o] = "done"]
    /\ UNCHANGED <<results, resultsHeader, resultsBody, emailContent, request,
                   error, alerts, received, shown, before, order>>

\* the steps of the invocations once started, the service answering with
\* one of datas
StepOver(datas) ==
    \E o \in Ops :
        \/ DismissValidation(o)
        \/ FetchResolve(o)
        \/ \E message \in FetchFailures : FetchReject(o, message)
        \/ \E message \in JsonFailures : JsonReject(o, message)
        \/ \E data \in datas : JsonResolve(o, data)
        \/ Finally(o)

\* the page used through its button: one submission at a time
Next ==
    \/ \E o \in Ops, text \in Texts : Submit(o, text)
    \/ StepOver(Datas)

Spec == Init /\ [][Next]_vars

\* the answers of the service when invocations overlap: the two scenarios,
\* a service error, and a result that lacks its risk_level
OverlapDatas ==
    {[t |-> "object", error |-> Undef, analysis |-> ScenarioA],
     [t |-> "object", error |-> Undef, analysis |-> ScenarioB],
     [t |-> "object", error |-> Str("malformed payload"), analysis |-> Undef],
     [t |-> "object", error |-> Undef,
      analysis |-> [ScenarioB EXCEPT !.risk_level = Undef]]}

\* the texts submitted when invocations overlap: a blank one and a word
OverlapTexts == {<<" ">>, <<"a">>}

\* the answers of the service under fairness: null, and every error field
\* with no analysis or the result of a scenario
FairDatas ==
    {Null}
    \cup [t : {"object"}, error : ErrorFields,
          analysis : {Undef, ScenarioA, ScenarioB}]

\* lines 27-37: the promise of fetch or of response.json() settles
NetworkResponds ==
    \E o \in Ops :
        \/ FetchResolve(o)
        \/ \E message \in FetchFailures : FetchReject(o, message)
        \/ \E message \in JsonFailures : JsonReject(o, message)
        \/ \E data \in FairDatas : JsonResolve(o, data)

\* lines 46-51: the call of alert in the catch block returns
AlertReturns == \E o \in Ops : Finally(o)

\* the page used through its button, the service answering as in FairDatas
NextFair ==
    \/ \E o \in Ops, text \in Texts : Submit(o, text)
    \/ StepOver(FairDatas)

\* the same with a service that settles every request and calls of alert
\* that return
SpecFair == Init /\ [][NextFair]_vars /\ WF_vars(NetworkResponds) /\ WF_vars(AlertReturns)

\* the page when submit events are also dispatched while the button is disabled
NextBypass ==
    \/ \E o \in Ops, text \in OverlapTexts : Submit(o, text)
    \/ \E o \in Ops, text \in OverlapTexts : SubmitBypassed(o, text)
    \/ StepOver(OverlapDatas)

SpecBypass == Init /\ [][NextBypass]_vars

\* ------------------------------------------------------------------------
\* Properties
\* ------------------------------------------------------------------------
Idle == [innerHTML |-> "U+1F50D Analizar Correo", disabled |-> FALSE]
Loading == [innerHTML |-> "U+23F3 Analizando...", disabled |-> TRUE]

\* the events of a trace that satisfy want, in order
RECURSIVE Only(_, _)
Only(events, want) ==
    IF events = <<>> THEN <<>>
    ELSE IF Head(events) \in want THEN <<Head(events)>> \o Only(Tail(events), want)
    ELSE Only(Tail(events), want)

Has(events, e) == \E i \in 1..Len(events) : events[i] = e

\* C1: every invocation of analyzeEmail that got past the empty-input check
\* returns with the button enabled and showing its default label, whatever
\* its outcome; the step in which it returns leaves the button so, with no
\* dialog open, so that a new submission is accepted.
C1_LoadingIndicatorSymmetry ==
    [][\A o \in Ops :
          (pc[o] \in {"fetch", "json", "catchAlert"} /\ pc'[o] = "done")
              => /\ analyzeBtn' = Idle
                 /\ Free(o)'
                 /\ ~DialogOpen']_vars

\* an invocation has returned after a failure in displayResults, another
\* after a rejected fetch; the button is idle
C1_Witness ==
    \E o \in Ops :
        /\ pc[o] = "done"
        /\ request[o].sent
        /\ error[o].threw
        /\ Has(trace[o], "header")
        /\ analyzeBtn = Idle

\* C2: when the trimmed text is empty, analyzeEmail raises the validation
\* notification and returns without a request; the button, the visibility
\* of the results, the results header and the results body are unchanged.
C2_EmptyInputShortCircuit ==
    [][\A o \in Ops :
          (Free(o) /\ ~Free(o)' /\ emailContent'[o] = <<>>)
              => /\ pc'[o] = "valAlert"
                 /\ alerts'[o] = <<"Por favor, ingresa el contenido del correo electronico">>
                 /\ request'[o] = NoRequest
                 /\ ~Has(trace'[o], "fetch")
                 /\ UNCHANGED <<analyzeBtn, results, resultsHeader, resultsBody>>]_vars

\* the validation dialog is open over a page that shows an earlier result
C2_Witness ==
    \E o \in Ops :
        /\ pc[o] = "valAlert"
        /\ emailContent[o] = <<>>
        /\ results.display = "block"
        /\ request[o] = NoRequest

\* C3: the alert style, the icon and the recommendation of the rendered body
\* are those of the classification table for the risk_level it was built
\* from: 'ALTO' and 'MEDIO' have their rows, every other string has the
\* default row; nothing else of the analysis enters.
C3_ClassificationTable ==
    shown # NoAnalysis =>
        LET alert == resultsBody.innerHTML[1]
            triple == <<alert.class[2], alert.heading[1], alert.recommendation>>
            level == shown.risk_level
        IN /\ level.t = "string"
           /\ level.v = "ALTO" =>
                triple = <<"alert-danger", "U+1F6A8",
                           "NO interactues con este correo. Es muy probable que sea phishing.">>
           /\ level.v = "MEDIO" =>
                triple = <<"alert-warning", "U+26A0",
                           "Ten precaucion. Verifica la fuente antes de realizar cualquier accion.">>
           /\ level.v \notin {"ALTO", "MEDIO"} =>
                triple = <<"alert-success", "U+2705",
                           "El correo parece seguro, pero siempre manten precaucion.">>

\* the body shows a result whose tier is the lower-case 'alto', with the
\* colour and the evidence of a phishing mail
C3_Witness ==
    /\ shown # NoAnalysis
    /\ shown.risk_level = Str("alto")
    /\ shown.risk_color = Str("danger")
    /\ shown.score = Num(85)
    /\ shown.suspicious_urls.items # <<>>
    /\ resultsBody.innerHTML[1].class = <<"alert", "alert-success", "risk-alto">>

\* C4: a response that carries an error field, whatever its value, is never
\* rendered: displayResults is not called, header and body are not written,
\* the panel stays hidden, and the one notification is the prefix followed
\* by the error the service reported.
C4_ErrorFieldSuppressesRender ==
    \A o \in Ops :
        (received[o].t = "object" /\ received[o].error # Undef)
            => /\ ~Has(trace[o], "displayResults")
               /\ ~Has(trace[o], "header")
               /\ ~Has(trace[o], "body")
               /\ results.display = "none"
               /\ alerts[o] = <<"Error al analizar el correo: " \o ToString(received[o].error)>>

\* C5: an invocation that raised an error notification has written neither
\* the results header nor the results body.
C5_NoPartialPresentation ==
    \A o \in Ops :
        alerts[o] # <<>> => ~Has(trace[o], "header") /\ ~Has(trace[o], "body")

\* C6 as stated: whenever the error notification of a request that failed
\* is on screen, the button is already enabled with its default label.
C6_IdleBeforeNotification ==
    \A o \in Ops : pc[o] = "catchAlert" => analyzeBtn = Idle

\* C6 (amended): under one-at-a-time submission the error notification is
\* raised while the button is still disabled and shows the loading text, no
\* write to the button having been made; the button is restored by the step
\* that follows the notification, so that an invocation that raised it has
\* returned with the button idle and the restore right after the alert.
C6_RestoreFollowsNotification ==
    \A o \in Ops :
        /\ pc[o] = "catchAlert" =>
              /\ analyzeBtn = Loading
              /\ trace[o][Len(trace[o])] = "alert"
              /\ ~Has(trace[o], "btnIdle")
        /\ (pc[o] = "done" /\ Has(trace[o], "alert")) =>
              /\ analyzeBtn = Idle
              /\ Len(trace[o]) >= 2
              /\ SubSeq(trace[o], Len(trace[o]) - 1, Len(trace[o])) = <<"alert", "btnIdle">>

\* the notification of a body that was not JSON is on screen and the button
\* still shows the loading state
C6_Witness ==
    \E o \in Ops :
        /\ pc[o] = "catchAlert"
        /\ Has(trace[o], "jsonRejected")
        /\ alerts[o] # <<>>
        /\ analyzeBtn = Loading

\* C7: under one-at-a-time submission, whenever a request is outstanding the
\* button is disabled, and at most one invocation is outstanding.
C7_SingleOutstanding ==
    /\ (\E o \in Ops : Outstanding(o)) => analyzeBtn.disabled
    /\ Cardinality({o \in Ops : Outstanding(o)}) <= 1
    /\ Cardinality({o \in Ops : ~Free(o)}) <= 1

\* a request is outstanding over a page that shows the result of an earlier
\* one; the button is disabled
C7_Witness ==
    \E o \in Ops :
        /\ pc[o] = "fetch"
        /\ request[o].sent
        /\ shown # NoAnalysis
        /\ analyzeBtn.disabled

\* C8: the rendered body has the keyword block exactly when detected_keywords
\* is not empty and the URL block exactly when suspicious_urls is not empty,
\* whatever total_urls is, and always ends with the line of the URL count.
C8_EvidenceEmptiness ==
    shown # NoAnalysis =>
        LET blocks == resultsBody.innerHTML
            HasBlock(kind) == \E i \in 1..Len(blocks) : blocks[i].block = kind
        IN /\ HasBlock("keywords") <=> Len(shown.detected_keywords.items) > 0
           /\ HasBlock("urls") <=> Len(shown.suspicious_urls.items) > 0
           /\ blocks[Len(blocks)].block = "total"
           /\ shown.total_urls = Num(0) =>
                blocks[Len(blocks)].text
                    = "Total de URLs encontradas: 0 | Analisis realizado con exito"
           /\ shown.total_urls = Num(1) =>
                blocks[Len(blocks)].text
                    = "Total de URLs encontradas: 1 | Analisis realizado con exito"

\* the body of a result with one URL found, none suspicious, and keywords:
\* the keyword block and the count line, no URL block
C8_Witness ==
    /\ shown # NoAnalysis
    /\ shown.total_urls = Num(1)
    /\ shown.suspicious_urls.items = <<>>
    /\ shown.detected_keywords.items # <<>>
    /\ Len(resultsBody.innerHTML) = 3
    /\ resultsBody.innerHTML[2].block = "keywords"

\* C9: an invocation that issued a request wrote the loading state once,
\* before fetch, and writes the idle state once, as its last statement and
\* after the request has resolved or failed; between the two the button
\* keeps the loading state.
C9_ToggledOnceEachWay ==
    \A o \in Ops :
        request[o].sent =>
            LET toggles == Only(trace[o], {"btnLoading", "fetch", "btnIdle"})
            IN IF pc[o] = "done"
               THEN /\ toggles = <<"btnLoading", "fetch", "btnIdle">>
                    /\ trace[o][Len(trace[o])] = "btnIdle"
                    /\ Has(trace[o], "response") \/ Has(trace[o], "fetchRejected")
                    /\ analyzeBtn = Idle
               ELSE /\ toggles = <<"btnLoading", "fetch">>
                    /\ analyzeBtn = Loading

\* an invocation whose fetch was rejected has returned
C9_Witness ==
    \E o \in Ops :
        /\ pc[o] = "done"
        /\ trace[o] = <<"btnLoading", "hide", "fetch", "fetchRejected", "alert", "btnIdle">>

\* C10: an invocation that issued a request and failed raised exactly one
\* notification, the prefix followed by the message of the error: the reason
\* of the rejection of fetch or of json(), or the error field of the
\* response; one that rendered raised none.
C10_OneNotificationPerFailure ==
    \A o \in Ops :
        (request[o].sent /\ pc[o] \in {"catchAlert", "done"}) =>
            /\ (\E e \in {"fetchRejected", "jsonRejected", "throw"} : Has(trace[o], e))
                  => error[o].threw
            /\ error[o].threw =>
                  alerts[o] = <<"Error al analizar el correo: " \o error[o].message>>
            /\ Has(trace[o], "fetchRejected") => error[o].message \in FetchFailures
            /\ Has(trace[o], "jsonRejected") => error[o].message \in JsonFailures
            /\ Has(trace[o], "throw") => error[o].message = received[o].error.v
            /\ Has(trace[o], "show") => ~error[o].threw /\ alerts[o] = <<>>

\* the notification of a service error is on screen
C10_Witness ==
    \E o \in Ops :
        /\ pc[o] = "catchAlert"
        /\ Has(trace[o], "throw")
        /\ alerts[o] = <<"Error al analizar el correo: malformed payload">>

\* C11: displayResults called with an analysis that has its two lists and a
\* risk_level other than 'ALTO' and 'MEDIO' (absent, null and non-string
\* included) completes and reveals the success presentation.
C11_DefaultBranchTotal ==
    \A o \in Ops :
        (/\ pc[o] \in {"catchAlert", "done"}
         /\ Has(trace[o], "displayResults")
         /\ received[o].hasAnalysis
         /\ received[o].shape.hasKeywords
         /\ received[o].shape.hasUrls
         /\ received[o].shape.risk_level \notin {Str("ALTO"), Str("MEDIO")})
            => /\ ~error[o].threw
               /\ Has(trace[o], "show")
               /\ results.display = "block"
               /\ resultsBody.innerHTML[1].class[2] = "alert-success"
               /\ resultsBody.innerHTML[1].heading[1] = "U+2705"

C13_PresentationReplaced ==
    \A o \in Ops :
        (pc[o] = "done" /\ Has(trace[o], "show")) =>
            LET blocks == resultsBody.innerHTML
                Count(kind) == Cardinality({i \in 1..Len(blocks) : blocks[i].block = kind})
            IN /\ before[o] \in {"empty", "same", "other"}
               /\ blocks = BodyHTML(shown)
               /\ resultsHeader.className = HeaderClass(shown.risk_color)
               /\ results.display = "block"
               /\ Count("alert") = 1
               /\ Count("total") = 1
               /\ Count("keywords") = IF shown.detected_keywords.items = <<>> THEN 0 ELSE 1
               /\ Count("urls") = IF shown.suspicious_urls.items = <<>> THEN 0 ELSE 1
               /\ Len(blocks) = Count("alert") + Count("keywords") + Count("urls") + Count("total")

\* a result without evidence has been rendered over a page that showed
\* another result: two blocks, nothing of the earlier one
C13_Witness ==
    \E o \in Ops :
        /\ pc[o] = "done"
        /\ before[o] = "other"
        /\ shown # NoAnalysis
        /\ shown.detected_keywords.items = <<>>
        /\ shown.suspicious_urls.items = <<>>
        /\ Len(resultsBody.innerHTML) = 2

\* C14: an invocation that renders an analysis over the page that already
\* shows the rendering of the same analysis leaves the header and the body as
\* they were and the panel visible; the analysis it rendered is the one it
\* received, unchanged.
C14_PresentationIdempotent ==
    [][\A o \in Ops :
          (pc[o] = "json" /\ pc'[o] = "done" /\ before'[o] = "same")
              => /\ resultsBody' = resultsBody
                 /\ resultsHeader' = resultsHeader
                 /\ results'.display = "block"
                 /\ shown' = shown
                 /\ Shape(shown') = received'[o].shape]_vars

\* the same analysis has been rendered twice in a row
C14_Witness ==
    \E o \in Ops :
        /\ pc[o] = "done"
        /\ before[o] = "same"
        /\ Len(resultsBody.innerHTML) = 4
        /\ results.display = "block"

\* C15: with submit events dispatched while the button is disabled, every
\* response that renders overwrites the presentation at the step in which it
\* resolves, whatever other invocations are outstanding or have rendered:
\* header, body and visibility are then those of the analysis it received.
C15_LastResolvedWins ==
    [][\A o \in Ops :
          (pc[o] = "json" /\ pc'[o] = "done")
              => /\ Shape(shown') = received'[o].shape
                 /\ resultsBody'.innerHTML = BodyHTML(shown')
                 /\ resultsHeader'.className = HeaderClass(shown'.risk_color)
                 /\ results'.display = "block"]_vars

\* two overlapping invocations have both rendered; the one submitted first
\* received the harmless result, the other the phishing one, and the page
\* shows the harmless result: the first resolved last
C15_Witness ==
    /\ order = <<1, 2>>
    /\ pc[1] = "done" /\ Has(trace[1], "show")
    /\ pc[2] = "done" /\ Has(trace[2], "show")
    /\ request[1].sent /\ request[2].sent
    /\ received[1].shape.risk_level = Str("BAJO")
    /\ received[2].shape.risk_level = Str("ALTO")
    /\ shown = ScenarioB
    /\ resultsBody.innerHTML = BodyHTML(ScenarioB)

\* C19: with submit events dispatched while the button is disabled, an
\* invocation that returns while another is still awaiting its response sets
\* the button to enabled with its default label all the same: the button
\* does not follow the requests outstanding.
C19_IndicatorIgnoresOutstanding ==
    [][\A o \in Ops :
          (/\ pc[o] \in {"json", "catchAlert"}
           /\ pc'[o] = "done"
           /\ \E q \in Ops \ {o} : Outstanding(q))
              => /\ analyzeBtn' = Idle
                 /\ \E q \in Ops \ {o} : Outstanding(q)']_vars

\* the button is enabled with its default label while a request is
\* outstanding, another invocation having returned
C19_Witness ==
    \E o, q \in Ops :
        /\ pc[o] = "done"
        /\ request[o].sent
        /\ pc[q] = "fetch"
        /\ request[q].sent
        /\ analyzeBtn = Idle

\* C17: under one-at-a-time submission, whenever the results panel is
\* visible no request is outstanding and header and body are the rendering
\* of one analysis, the one received by the latest invocation that issued a
\* request; the panel is hidden while a request is outstanding and after an
\* invocation that failed.
C17_VisiblePanelIsConsistent ==
    /\ results.display = "block" =>
          /\ \A o \in Ops : ~Outstanding(o)
          /\ shown # NoAnalysis
          /\ resultsHeader.className = HeaderClass(shown.risk_color)
          /\ resultsBody.innerHTML = BodyHTML(shown)
          /\ \A o \in Ops :
                request[o].sent =>
                    /\ pc[o] = "done"
                    /\ Has(trace[o], "show")
                    /\ received[o].shape = Shape(shown)
    /\ \A o \in Ops :
          /\ Outstanding(o) => results.display = "none"
          /\ (request[o].sent /\ error[o].threw) => results.display = "none"

\* the panel is visible and shows the result of the latest request, which
\* replaced another one
C17_Witness ==
    \E o \in Ops :
        /\ results.display = "block"
        /\ pc[o] = "done"
        /\ request[o].sent
        /\ before[o] = "other"
        /\ received[o].shape.risk_level = Str("MEDIO")
        /\ resultsHeader.className = "card-header bg-danger text-white"

\* C18: a response without error field whose analysis is absent or lacks
\* its risk_level, detected_keywords or suspicious_urls makes displayResults
\* throw; the catch block raises one notification, the prefix followed by the
\* message of the exception; the body is not written, the panel stays
\* hidden, and the invocation returns with the button idle.
C18_UnusableAnalysisIsAFailure ==
    \A o \in Ops :
        (/\ pc[o] \in {"catchAlert", "done"}
         /\ received[o].t = "object"
         /\ received[o].error = Undef
         /\ \/ ~received[o].hasAnalysis
            \/ received[o].shape.risk_level = Undef
            \/ ~received[o].shape.hasKeywords
            \/ ~received[o].shape.hasUrls)
            => /\ Has(trace[o], "displayResults")
               /\ error[o].threw
               /\ error[o].message \in
                     {"Cannot destructure property 'risk_level' of 'analysis' as it is undefined.",
                      "Cannot read properties of undefined (reading 'toLowerCase')",
                      "Cannot read properties of null (reading 'toLowerCase')",
                      "risk_level.toLowerCase is not a function",
                      "Cannot read properties of undefined (reading 'length')"}
               /\ alerts[o] = <<"Error al analizar el correo: " \o error[o].message>>
               /\ ~Has(trace[o], "body")
               /\ ~Has(trace[o], "show")
               /\ results.display = "none"
               /\ pc[o] = "catchAlert" => trace[o][Len(trace[o])] = "alert"
               /\ pc[o] = "done" => analyzeBtn = Idle

\* an invocation has returned after a result without suspicious_urls: one
\* notification, header written, panel hidden, button idle
C18_Witness ==
    \E o \in Ops :
        /\ pc[o] = "done"
        /\ received[o].t = "object"
        /\ received[o].hasAnalysis
        /\ received[o].shape.risk_level = Str("ALTO")
        /\ received[o].shape.hasKeywords
        /\ ~received[o].shape.hasUrls
        /\ alerts[o] = <<"Error al analizar el correo: Cannot read properties of undefined (reading 'length')">>
        /\ results.display = "none"
        /\ analyzeBtn = Idle

====
